---- MODULE Spec2Model ----
(***************************************************************************)
(* kubelse: the two-stage concurrent pipeline of cmd/misc.go.              *)
(*                                                                         *)
(* Stage 1 (verifyContainers) probes every discovered container for a      *)
(* shell and the required utilities and sorts the containers into a        *)
(* testable and a nontestable list.  Stage 2 (scan) runs the audit script  *)
(* in every testable container and saves one report per result.  Every     *)
(* stage sends its status messages through the log channel of misc.go.     *)
(*                                                                         *)
(* Goroutines are modelled as processes with a program counter each; a     *)
(* step ends at every blocking operation (channel send or receive,         *)
(* WaitGroup.Wait, a remote Exec).  Channels are sequences with the        *)
(* capacity the code gives them.                                           *)
(***************************************************************************)
EXTENDS Naturals, Sequences, FiniteSets

\* ------------------------------------------------------------------ bounds

\* longest list of discovered containers
MaxContainers == 2
\* runtime.NumCPU(): the capacity of logBuffer and conProdChan
NumCPU == 1
\* how often the operator may fail to give a valid answer to promptYN
MaxPrompts == 1
\* the clock of saveScan's file names, in seconds since the start of the run
MaxTime == 1
\* most lines of a captured output
MaxLines == 2

\* the largest number of containers the pool is sized for: one more than the
\* ceiling of the scan workers
MaxPool == 201

\* --------------------------------------------------------- program values

\* the worker ceiling of the scan stage
ScanCeiling == 200

\* var utils
utils == <<"stat /usr/bin/find", "stat /bin/cat", "stat /bin/grep">>

\* the status classes of k8sexec.ExecStatus.RetCode
RetCodes == {"Success", "CommandNotFound", "CommandCannotExecute", "Failure"}

\* the commands a prober worker executes in one container
ProbeCommands == {"sh --version", "bash --version"} \cup {utils[i] : i \in 1..Len(utils)}

\* type Container: the discovered (pod, container) pairs
ContainerRefs == {[Pod |-> "p1", Container |-> "c1"], [Pod |-> "p2", Container |-> "c1"]}

\* the values of the -o option that are tried
Formats == {"ansi", "text", "html", "json", "xml"}

RECURSIVE SeqsUpTo(_, _)
\* all lists over S of length at most n
SeqsUpTo(S, n) ==
    IF n = 0 THEN {<<>>}
    ELSE LET shorter == SeqsUpTo(S, n - 1)
         IN  shorter \cup {Append(s, x) : s \in shorter, x \in S}

\* the first container of the cluster
FirstRef == [Pod |-> "p1", Container |-> "c1"]

\* the lists getContainers may return; the two containers are interchangeable,
\* so a list starts with the first one
ContainerLists == {s \in SeqsUpTo(ContainerRefs, MaxContainers) : s # <<>> => s[1] = FirstRef}

Min(a, b) == IF a < b THEN a ELSE b

\* number of positions of list s that hold x
Occurrences(s, x) == Cardinality({i \in 1..Len(s) : s[i] = x})

\* ------------------------------------------------------------ pure helpers

\* mutant: a shell counts as found unless its probe was not found or not executable
execSucceededLoose(status) == status \notin {"CommandNotFound", "CommandCannotExecute"}

\* getShellInContainer: if execStatus.RetCode == k8sexec.Success
execSucceeded(status) == status = "Success"

\* getShellInContainer: env gives the status class of each command in the container
getShellInContainer(env) ==
    IF execSucceeded(env["sh --version"]) THEN "sh"
    ELSE IF execSucceeded(env["bash --version"]) THEN "bash"
    ELSE ""

\* mutant: only a probe that returns Success counts as present
checkUtilInContainerOnlySuccess(env, util) == env[util] = "Success"

\* checkUtilInContainer: the bool it returns
checkUtilInContainer(env, util) ==
    env[util] # "CommandNotFound" /\ env[util] # "CommandCannotExecute"

RECURSIVE checkUtilsFrom(_, _, _)
\* the loop of checkUtils from position i on: stops at the first missing utility
checkUtilsFrom(env, us, i) ==
    IF i > Len(us) THEN TRUE
    ELSE IF checkUtilInContainer(env, us[i]) = FALSE THEN FALSE
    ELSE checkUtilsFrom(env, us, i + 1)

\* checkUtils
checkUtils(env, us) == checkUtilsFrom(env, us, 1)

\* mutant: the break is missing, the loop goes on after a missing utility
breakLoopNever(result) == FALSE

\* checkUtils: if result == false { break }
breakLoop(result) == result = FALSE

\* mutant: the shell is not asked for
testableFlagUtilsOnly(utilFound, shell) == utilFound

\* a prober worker: container.testable = checkUtils(...) && container.shell != ""
testableFlag(utilFound, shell) == utilFound /\ shell # ""

\* the testable flag a prober worker computes
Testable(env) == testableFlag(checkUtils(env, utils), getShellInContainer(env))

\* what one probing of a container can compute: the shell and the testable flag,
\* for every way the container may answer the commands
ProbeResults ==
    {[shell |-> getShellInContainer(env), testable |-> Testable(env)] :
        env \in [ProbeCommands -> RetCodes]}


\* the message log() is called with: a kind and what the text is built from
Msg(kind, arg) == <<kind, arg>>

\* the pod/container column pairs the tabwriter renders for a list of ContainerInfo
Table(infos) == [i \in 1..Len(infos) |-> infos[i].container]

\* ------------------------------------------------------------------- state

VARIABLES
    containers,             \* the list getContainers returned
    quiet,                  \* -q
    format,                 \* -o
    pc,                     \* where the main goroutine is
    err,                    \* the error run() returns ("" while running, "nil" for none)
    logBuffer,              \* chan string
    logged,                 \* history: the messages sent on logBuffer, in order
    logClosed,              \* close(logBuffer) has run
    logDone,                \* the log goroutine has returned (logWg.Done)
    stderr,                 \* what the log goroutine has printed
    crashed,                \* a goroutine panicked
    podProdChan,            \* verifyContainers: feeder -> workers
    podClosed,
    conProdChan,            \* verifyContainers: workers -> collector
    conClosed,
    podFeeder,              \* the feeder goroutine: [pc, i]
    verWorkers,             \* the prober goroutines: [pc, info]
    contCollector,          \* the collector goroutine: "off", "run" or "done"
    target,                 \* verifyContainers' named results
    nontestable,
    targetContainers,       \* the package-level lists scan assigns
    nontestableContainers,
    prompts,                \* answers promptYN has rejected so far
    response,               \* promptYN's local: the token Scanf stored; empty
                            \* outside promptYN
    contProdChan,           \* scan: feeder -> workers
    contClosed,
    resultsProdChan,        \* scan: workers -> results collector
    resultsClosed,
    contFanOut,             \* the scan feeder goroutine: [pc, i]
    testWorkers,            \* the scan worker goroutines: [pc, info, cmd, stdout]
    resultsCollector,       \* the results collector goroutine: [pc, cnt, result]
    files,                  \* the output directory: a set of [name, report]
    now,                    \* the clock, in seconds
    hist,                   \* history: what was executed, per container, and the
                            \* decision promptYN returned
    probe,                  \* the probing of one container, command by command
    pool                    \* the prober pool, by numbers: [pc, n, workers, left, busy]

inVars    == <<containers, quiet, format, probe, pool>>
logVars   == <<logBuffer, logged, logClosed, logDone, stderr, crashed>>
verVars   == <<podProdChan, podClosed, conProdChan, conClosed, podFeeder, verWorkers,
               contCollector, target, nontestable>>
listVars  == <<targetContainers, nontestableContainers>>
promptVars == <<prompts, response>>
scanVars  == <<contProdChan, contClosed, resultsProdChan, resultsClosed, contFanOut,
               testWorkers, resultsCollector>>
fileVars  == <<files, now>>
vars      == <<inVars, pc, err, logVars, verVars, listVars, promptVars, scanVars,
               fileVars, hist>>

NoInfo   == [container |-> [Pod |-> "", Container |-> ""], shell |-> "", testable |-> FALSE]
NoResult == [podName |-> "", containerName |-> "", scanReport |-> <<>>]
Zero     == [c \in ContainerRefs |-> 0]
NoProbe  == [pc |-> "off"]
NoPool   == [pc |-> "off"]

\* the goroutines, the queues and the files when the process starts: the log
\* goroutine of init() is running, nothing else is
InitState ==
    /\ err = ""
    /\ logBuffer = <<>> /\ logClosed = FALSE /\ logDone = FALSE
    /\ logged = <<>>
    /\ stderr = <<>> /\ crashed = FALSE
    /\ podProdChan = <<>> /\ podClosed = FALSE
    /\ conProdChan = <<>> /\ conClosed = FALSE
    /\ podFeeder = [pc |-> "off", i |-> 1]
    /\ verWorkers = <<>>
    /\ contCollector = "off"
    /\ target = <<>> /\ nontestable = <<>>
    /\ targetContainers = <<>> /\ nontestableContainers = <<>>
    /\ prompts = 0
    /\ response = <<>>
    /\ contProdChan = <<>> /\ contClosed = FALSE
    /\ resultsProdChan = <<>> /\ resultsClosed = FALSE
    /\ contFanOut = [pc |-> "off", i |-> 1]
    /\ testWorkers = <<>>
    /\ resultsCollector = [pc |-> "off", cnt |-> 0, result |-> NoResult]
    /\ files = {}
    /\ now = 0
    /\ hist = [probes |-> Zero, execOK |-> Zero, execFail |-> Zero, pushed |-> Zero,
               writeFail |-> 0, decision |-> "none"]

\* the process before cmd.Execute(): the log goroutine of init() is running
InitProcess ==
    /\ pc = "PreRunE"
    /\ InitState

Init ==
    /\ containers \in ContainerLists
    /\ quiet \in BOOLEAN
    /\ format \in Formats
    /\ probe = NoProbe
    /\ pool = NoPool
    /\ InitProcess

\* mutant: close leaves the channel open
closeNoop == FALSE

\* close(ch): the closed flag of the channel afterwards
close == TRUE

\* ------------------------------------------------------------ the log sink

\* log(msg): nothing when quiet; otherwise a send on logBuffer, which blocks
\* while the buffer is full and panics once the channel is closed; a panic ends
\* the process, so no goroutine takes a step once crashed is set
log(msg) ==
    IF quiet
    THEN UNCHANGED <<logBuffer, logged, crashed>>
    ELSE IF logClosed
         THEN crashed' = TRUE /\ UNCHANGED <<logBuffer, logged>>
         ELSE /\ Len(logBuffer) < NumCPU
              /\ logBuffer' = Append(logBuffer, msg)
              /\ logged' = Append(logged, msg)
              /\ UNCHANGED crashed

\* the goroutine of init(): for msg := range logBuffer { fmt.Fprint(os.Stderr, msg) }
LogPrint ==
    /\ ~crashed
    /\ ~logDone
    /\ logBuffer # <<>>
    /\ stderr' = Append(stderr, Head(logBuffer))
    /\ logBuffer' = Tail(logBuffer)
    /\ UNCHANGED <<inVars, pc, err, logged, logClosed, logDone, crashed, verVars, listVars,
                   promptVars, scanVars, fileVars, hist>>

\* the range loop ends when the channel is closed and drained
LogExit ==
    /\ ~crashed
    /\ ~logDone
    /\ logBuffer = <<>> /\ logClosed
    /\ logDone' = TRUE
    /\ UNCHANGED <<inVars, pc, err, logBuffer, logged, logClosed, stderr, crashed, verVars,
                   listVars, promptVars, scanVars, fileVars, hist>>


\* ------------------------------------------------ the main goroutine: run()

\* what a step of the main goroutine leaves alone besides pc, err and the log channel
mainRest == <<inVars, logClosed, logDone, stderr, verVars, listVars, promptVars, scanVars,
              fileVars, hist>>

\* cmd.PreRunE: the check of the -o option; on an error RunE is not called
PreRunE ==
    /\ ~crashed
    /\ pc = "PreRunE"
    /\ IF format # "ansi" /\ format # "text" /\ format # "json"
       THEN pc' = "exit" /\ err' = "Invalid value of the output format option"
       ELSE pc' = "scanContainers" /\ UNCHANGED err
    /\ UNCHANGED <<logBuffer, logged, crashed, mainRest>>

\* scanContainers: log "[+] Started"
scanContainersStarted ==
    /\ ~crashed
    /\ pc = "scanContainers"
    /\ log(Msg("Started", 0))
    /\ pc' = "scanContainers2"
    /\ UNCHANGED <<err, mainRest>>

\* scanContainers: log "[+] Creating a list of unique pods"
scanContainersCreating ==
    /\ ~crashed
    /\ pc = "scanContainers2"
    /\ log(Msg("Creating", 0))
    /\ pc' = "scanContainers3"
    /\ UNCHANGED <<err, mainRest>>

\* mutant: the check of the empty list is missing
noneFoundNever(list) == FALSE

\* scanContainers: if len(containers) == 0
noneFound(list) == Len(list) = 0

\* scanContainers: len(containers) == 0 returns the error
scanContainersNone ==
    /\ ~crashed
    /\ pc = "scanContainers3"
    /\ noneFound(containers)
    /\ err' = "No pods/containers found"
    /\ pc' = "stoplog"
    /\ UNCHANGED <<logBuffer, logged, crashed, mainRest>>

\* scanContainers: log "[+] Found %d containers in %s namespace" and call scan
scanContainersFound ==
    /\ ~crashed
    /\ pc = "scanContainers3"
    /\ ~noneFound(containers)
    /\ log(Msg("FoundInNamespace", Len(containers)))
    /\ pc' = "scan"
    /\ UNCHANGED <<err, mainRest>>

\* scan: log "[*] Identifying containers that can be tested"
scanIdentifying ==
    /\ ~crashed
    /\ pc = "scan"
    /\ log(Msg("Identifying", 0))
    /\ pc' = "verifyContainers"
    /\ UNCHANGED <<err, mainRest>>

\* mutant: the guard on the empty utility list is missing
skipProbingNever(us) == FALSE

\* verifyContainers: if len(utils) == 0 { return nil, nil }
skipProbing(us) == Len(us) = 0

\* verifyContainers up to podWg.Wait(), with us the value of the package variable
\* the number of prober goroutines started for n containers:
\* for i := 0; i < len(containers); i++
verWorkerCount(n) == n

\* utils: make the channels, return at once when us is empty, else start
\* len(containers) workers, the feeder and the collector
verifyContainersOf(us) ==
    /\ ~crashed
    /\ pc = "verifyContainers"
    /\ IF skipProbing(us)
       THEN /\ pc' = "scanFound"
            /\ targetContainers' = <<>> /\ nontestableContainers' = <<>>
            /\ UNCHANGED verVars
       ELSE /\ pc' = "podWg.Wait"
            /\ verWorkers' = [w \in 1..verWorkerCount(Len(containers)) |->
                                [pc |-> "recv", info |-> NoInfo]]
            /\ podFeeder' = [pc |-> IF Len(containers) = 0 THEN "done" ELSE "run", i |-> 1]
            /\ contCollector' = "run"
            /\ UNCHANGED <<podProdChan, podClosed, conProdChan, conClosed, target,
                           nontestable, listVars>>
    /\ UNCHANGED <<inVars, err, logVars, promptVars, scanVars, fileVars, hist>>

\* verifyContainers with the list utils is declared with
verifyContainers == verifyContainersOf(utils)

\* podWg.Wait(); close(podProdChan)
verifyClosePod ==
    /\ ~crashed
    /\ pc = "podWg.Wait"
    /\ podFeeder.pc = "done"
    /\ podClosed' = close
    /\ pc' = "contVerWorkerWg.Wait"
    /\ UNCHANGED <<inVars, err, logVars, podProdChan, conProdChan, conClosed, podFeeder,
                   verWorkers, contCollector, target, nontestable, listVars, promptVars,
                   scanVars, fileVars, hist>>

\* contVerWorkerWg.Wait(); close(conProdChan)
verifyCloseCon ==
    /\ ~crashed
    /\ pc = "contVerWorkerWg.Wait"
    /\ \A w \in DOMAIN verWorkers : verWorkers[w].pc = "done"
    /\ conClosed' = close
    /\ pc' = "contCollectorWg.Wait"
    /\ UNCHANGED <<inVars, err, logVars, podProdChan, podClosed, conProdChan, podFeeder,
                   verWorkers, contCollector, target, nontestable, listVars, promptVars,
                   scanVars, fileVars, hist>>

\* mutant: verifyContainers does not wait for the collector
contCollectorWgNoWait == TRUE

\* mutant: verifyContainers waits for the workers' WaitGroup a second time
contCollectorWgWaitsForWorkers == \A w \in DOMAIN verWorkers : verWorkers[w].pc = "done"

\* contCollectorWg.Wait() returns once the collector has called Done
contCollectorWgWait == contCollector = "done"

\* contCollectorWg.Wait(); return target, nontestable; scan assigns the two lists
verifyReturn ==
    /\ ~crashed
    /\ pc = "contCollectorWg.Wait"
    /\ contCollectorWgWait
    /\ targetContainers' = target
    /\ nontestableContainers' = nontestable
    /\ pc' = "scanFound"
    /\ UNCHANGED <<inVars, err, logVars, verVars, promptVars, scanVars, fileVars, hist>>

\* scan: log "[+] Found %d containers"
scanFound ==
    /\ ~crashed
    /\ pc = "scanFound"
    /\ log(Msg("Found", Len(targetContainers) + Len(nontestableContainers)))
    /\ pc' = "scanTarget"
    /\ UNCHANGED <<err, mainRest>>

\* mutant: scan goes on without a testable container
hasTargetsAlways(list) == TRUE

\* scan: if len(targetContainers) > 0
hasTargets(list) == Len(list) > 0

\* scan: len(targetContainers) > 0: log "[+] Following %d containers can be tested:"
scanTarget ==
    /\ ~crashed
    /\ pc = "scanTarget"
    /\ hasTargets(targetContainers)
    /\ log(Msg("CanBeTested", Len(targetContainers)))
    /\ pc' = "scanTargetTable"
    /\ UNCHANGED <<err, mainRest>>

\* scan: else return "[-] Did not find any containers that can be tested"
scanNoTarget ==
    /\ ~crashed
    /\ pc = "scanTarget"
    /\ ~hasTargets(targetContainers)
    /\ err' = "Did not find any containers that can be tested"
    /\ pc' = "stoplog"
    /\ UNCHANGED <<logBuffer, logged, crashed, mainRest>>

\* scan: log the table of the testable containers
scanTargetTable ==
    /\ ~crashed
    /\ pc = "scanTargetTable"
    /\ log(Msg("TargetTable", Table(targetContainers)))
    /\ pc' = "scanNontestable"
    /\ UNCHANGED <<err, mainRest>>

\* scan: len(nontestableContainers) > 0: log "[-] Following %d containers cannot be tested:"
scanNontestable ==
    /\ ~crashed
    /\ pc = "scanNontestable"
    /\ Len(nontestableContainers) > 0
    /\ log(Msg("CannotBeTested", Len(nontestableContainers)))
    /\ pc' = "scanNontestableTable"
    /\ UNCHANGED <<err, mainRest>>

\* scan: no nontestable container, nothing is logged
scanAllTestable ==
    /\ ~crashed
    /\ pc = "scanNontestable"
    /\ ~(Len(nontestableContainers) > 0)
    /\ pc' = "scanGate"
    /\ UNCHANGED <<err, logBuffer, logged, crashed, mainRest>>

\* scan: log the table of the nontestable containers
scanNontestableTable ==
    /\ ~crashed
    /\ pc = "scanNontestableTable"
    /\ log(Msg("NontestableTable", Table(nontestableContainers)))
    /\ pc' = "scanGate"
    /\ UNCHANGED <<err, mainRest>>


\* ---------------------------------------------------------------- promptYN

\* the letters that occur in the answers tried
ToUpperChar(ch) ==
    CASE ch = "y" -> "Y"
      [] ch = "n" -> "N"
      [] ch = "e" -> "E"
      [] ch = "s" -> "S"
      [] OTHER    -> ch

\* strings.ToUpper on a string given as its characters
ToUpper(str) == [i \in 1..Len(str) |-> ToUpperChar(str[i])]

RECURSIVE TrimLeft(_)
TrimLeft(str) == IF str # <<>> /\ Head(str) = " " THEN TrimLeft(Tail(str)) ELSE str

RECURSIVE TrimRight(_)
TrimRight(str) ==
    IF str # <<>> /\ str[Len(str)] = " " THEN TrimRight(SubSeq(str, 1, Len(str) - 1)) ELSE str

\* strings.TrimSpace
TrimSpace(str) == TrimRight(TrimLeft(str))

\* the tokens fmt.Scanf("%s\n", &response) stores when it reports no error: %s
\* reads one word, so a token holds no white space
Answers == {<<"Y">>, <<"y">>, <<"N">>, <<"n">>, <<"x">>, <<"y", "e", "s">>, <<"Y", "N">>}

\* mutant: only the first letter of the answer is looked at
promptYNDecisionFirstLetter(token) ==
    LET r == ToUpper(TrimSpace(token))
    IN  IF r # <<>> /\ r[1] = "Y" THEN "yes"
        ELSE IF r # <<>> /\ r[1] = "N" THEN "no" ELSE "again"

\* promptYN's decision on a token read without error: TRUE, FALSE or "again"
promptYNDecision(token) ==
    LET r == ToUpper(TrimSpace(token))
    IN  IF r = <<"Y">> THEN "yes" ELSE IF r = <<"N">> THEN "no" ELSE "again"

\* mutant: the prompt is shown in quiet mode too
gateAlways(q) == "promptYN"

\* scan: if !quiet { promptYN(...) }
gate(q) == IF q THEN "scanSpawn" ELSE "promptYN"

scanGate ==
    /\ ~crashed
    /\ pc = "scanGate"
    /\ pc' = gate(quiet)
    /\ UNCHANGED <<err, logBuffer, logged, crashed, mainRest>>

\* promptYN: log(prompt)
promptYN ==
    /\ ~crashed
    /\ pc = "promptYN"
    /\ log(Msg("Prompt", 0))
    /\ pc' = "Scanf"
    /\ UNCHANGED <<err, mainRest>>

\* promptYN: Scanf returns an error: log and prompt again
promptYNReadError ==
    /\ ~crashed
    /\ pc = "Scanf"
    /\ prompts < MaxPrompts
    /\ prompts' = prompts + 1
    /\ pc' = "promptYNError"
    /\ UNCHANGED <<inVars, err, logVars, verVars, listVars, response, scanVars, fileVars,
                   hist>>

\* promptYN: log "Error reading input. Please try again."
promptYNError ==
    /\ ~crashed
    /\ pc = "promptYNError"
    /\ log(Msg("ErrorReading", 0))
    /\ pc' = "promptYN"
    /\ UNCHANGED <<err, mainRest>>

\* promptYN: Scanf returns without an error and has stored a token in response
promptYNScanf ==
    /\ ~crashed
    /\ pc = "Scanf"
    /\ \E token \in Answers :
          /\ promptYNDecision(token) = "again" => prompts < MaxPrompts
          /\ response' = token
    /\ pc' = "promptYNCheck"
    /\ UNCHANGED <<inVars, err, logVars, verVars, listVars, prompts, scanVars, fileVars,
                   hist>>

\* promptYN: the response is "Y": return true, scan goes on
promptYNYes ==
    /\ ~crashed
    /\ pc = "promptYNCheck"
    /\ promptYNDecision(response) = "yes"
    /\ pc' = "scanProceeding"
    /\ response' = <<>>
    /\ hist' = [hist EXCEPT !.decision = "yes"]
    /\ UNCHANGED <<inVars, err, logVars, verVars, listVars, prompts, scanVars, fileVars>>

\* mutant: scan does not look at what promptYN returned
declinedGoesOn == [pc |-> "scanSpawn", err |-> ""]

\* scan: promptYN returned false: return errors.New("Action cancelled.")
declined == [pc |-> "stoplog", err |-> "Action cancelled."]

\* promptYN: the response is "N": return false, scan returns "Action cancelled."
promptYNNo ==
    /\ ~crashed
    /\ pc = "promptYNCheck"
    /\ promptYNDecision(response) = "no"
    /\ err' = declined.err
    /\ pc' = declined.pc
    /\ response' = <<>>
    /\ hist' = [hist EXCEPT !.decision = "no"]
    /\ UNCHANGED <<inVars, logVars, verVars, listVars, prompts, scanVars, fileVars>>

\* promptYN: the response is neither
promptYNOther ==
    /\ ~crashed
    /\ pc = "promptYNCheck"
    /\ promptYNDecision(response) = "again"
    /\ prompts' = prompts + 1
    /\ pc' = "promptYNInvalid"
    /\ UNCHANGED <<inVars, err, logVars, verVars, listVars, response, scanVars, fileVars,
                   hist>>

\* promptYN: log "Invalid input. Please enter 'Y' or 'N'."
promptYNInvalid ==
    /\ ~crashed
    /\ pc = "promptYNInvalid"
    /\ log(Msg("InvalidInput", 0))
    /\ pc' = "promptYN"
    /\ UNCHANGED <<err, mainRest>>

\* scan: log "Proceeding with testing..."
scanProceeding ==
    /\ ~crashed
    /\ pc = "scanProceeding"
    /\ log(Msg("Proceeding", 0))
    /\ pc' = "scanSpawn"
    /\ UNCHANGED <<err, mainRest>>

\* ------------------------------------------- scan: the second pipeline

\* mutant: one worker too few
workersOneLess(n) == Min(ScanCeiling, n) - 1

\* scan: var workers int = 200; if len(targetContainers) < 200 { workers = len(...) }
workers(n) == Min(ScanCeiling, n)

\* mutant: a report that could not be written makes scan fail
scanReturnsWriteError == IF hist.writeFail > 0 THEN "write failed" ELSE "nil"

\* scan: the return nil of its last line
scanReturns == "nil"

\* scan: if len(targetContainers) > 0, start the feeder, the workers and the results
\* collector
scanSpawn ==
    /\ ~crashed
    /\ pc = "scanSpawn"
    /\ IF Len(targetContainers) > 0
       THEN /\ contFanOut' = [pc |-> "run", i |-> 1]
            /\ testWorkers' = [w \in 1..workers(Len(targetContainers)) |->
                                 [pc |-> "recv", info |-> NoInfo, cmd |-> <<>>,
                                  stdout |-> <<>>]]
            /\ resultsCollector' = [resultsCollector EXCEPT !.pc = "recv"]
            /\ pc' = "contFanOutWg.Wait"
            /\ UNCHANGED err
       ELSE /\ pc' = "stoplog" /\ err' = scanReturns
            /\ UNCHANGED <<contFanOut, testWorkers, resultsCollector>>
    /\ UNCHANGED <<inVars, logVars, verVars, listVars, promptVars, contProdChan, contClosed,
                   resultsProdChan, resultsClosed, fileVars, hist>>

\* contFanOutWg.Wait(); close(contProdChan)
scanCloseCont ==
    /\ ~crashed
    /\ pc = "contFanOutWg.Wait"
    /\ contFanOut.pc = "done"
    /\ contClosed' = close
    /\ pc' = "testWorkerWg.Wait"
    /\ UNCHANGED <<inVars, err, logVars, verVars, listVars, promptVars, contProdChan,
                   resultsProdChan, resultsClosed, contFanOut, testWorkers,
                   resultsCollector, fileVars, hist>>

\* testWorkerWg.Wait(); close(resultsProdChan)
scanCloseResults ==
    /\ ~crashed
    /\ pc = "testWorkerWg.Wait"
    /\ \A w \in DOMAIN testWorkers : testWorkers[w].pc = "done"
    /\ resultsClosed' = close
    /\ pc' = "resultsCollectorWg.Wait"
    /\ UNCHANGED <<inVars, err, logVars, verVars, listVars, promptVars, contProdChan,
                   contClosed, resultsProdChan, contFanOut, testWorkers, resultsCollector,
                   fileVars, hist>>

\* mutant: scan does not wait for the results collector
resultsCollectorWgNoWait == TRUE

\* resultsCollectorWg.Wait() returns once the results collector has called Done
resultsCollectorWgWait == resultsCollector.pc = "done"

\* resultsCollectorWg.Wait(); return nil
scanReturn ==
    /\ ~crashed
    /\ pc = "resultsCollectorWg.Wait"
    /\ resultsCollectorWgWait
    /\ err' = scanReturns
    /\ pc' = "stoplog"
    /\ UNCHANGED <<logBuffer, logged, crashed, mainRest>>

\* run's deferred stoplog(): close(logBuffer)
stoplog ==
    /\ ~crashed
    /\ pc = "stoplog"
    /\ logClosed' = close
    /\ pc' = "logWg.Wait"
    /\ UNCHANGED <<inVars, err, logBuffer, logged, logDone, stderr, crashed, verVars, listVars,
                   promptVars, scanVars, fileVars, hist>>

\* mutant: stoplog does not wait for the log goroutine
logWgNoWait == TRUE

\* logWg.Wait() returns once the log goroutine has called Done
logWgWait == logDone

\* stoplog: logWg.Wait(), then run returns
stoplogWait ==
    /\ ~crashed
    /\ pc = "logWg.Wait"
    /\ logWgWait
    /\ pc' = "exit"
    /\ UNCHANGED <<inVars, err, logVars, verVars, listVars, promptVars, scanVars, fileVars,
                   hist>>


\* ------------------------------------- verifyContainers: the goroutines

\* mutant: every iteration sees the first element
rangeItemFirst(list, i) == list[1]

\* for _, container := range list: the element of iteration i
rangeItem(list, i) == list[i]

\* the feeder: podProdChan <- ContainerInfo{container: container}, for each container
podFeederSend ==
    /\ ~crashed
    /\ podFeeder.pc = "run"
    /\ podFeeder.i <= Len(containers)
    /\ ~podClosed
    /\ Len(podProdChan) < Len(containers)
    /\ podProdChan' = Append(podProdChan, [NoInfo EXCEPT !.container = rangeItem(containers, podFeeder.i)])
    /\ podFeeder' = [pc |-> IF podFeeder.i = Len(containers) THEN "done" ELSE "run",
                     i  |-> podFeeder.i + 1]
    /\ UNCHANGED <<inVars, pc, err, logVars, podClosed, conProdChan, conClosed, verWorkers,
                   contCollector, target, nontestable, listVars, promptVars, scanVars,
                   fileVars, hist>>

\* a prober worker: container := <-podProdChan
verWorkerRecv(w) ==
    /\ ~crashed
    /\ verWorkers[w].pc = "recv"
    /\ podProdChan # <<>>
    /\ verWorkers' = [verWorkers EXCEPT ![w] = [pc |-> "probe", info |-> Head(podProdChan)]]
    /\ podProdChan' = Tail(podProdChan)
    /\ hist' = [hist EXCEPT !.probes[Head(podProdChan).container] = @ + 1]
    /\ UNCHANGED <<inVars, pc, err, logVars, podClosed, conProdChan, conClosed, podFeeder,
                   contCollector, target, nontestable, listVars, promptVars, scanVars,
                   fileVars>>

\* a prober worker: the range loop ends, contVerWorkerWg.Done()
verWorkerExit(w) ==
    /\ ~crashed
    /\ verWorkers[w].pc = "recv"
    /\ podProdChan = <<>> /\ podClosed
    /\ verWorkers' = [verWorkers EXCEPT ![w].pc = "done"]
    /\ UNCHANGED <<inVars, pc, err, logVars, podProdChan, podClosed, conProdChan, conClosed,
                   podFeeder, contCollector, target, nontestable, listVars, promptVars,
                   scanVars, fileVars, hist>>

\* a prober worker: getShellInContainer and checkUtils; the container answers
\* each command with any status class
verWorkerProbe(w) ==
    /\ ~crashed
    /\ verWorkers[w].pc = "probe"
    /\ \E r \in ProbeResults :
          verWorkers' = [verWorkers EXCEPT ![w].pc = "send",
                                           ![w].info.shell = r.shell,
                                           ![w].info.testable = r.testable]
    /\ UNCHANGED <<inVars, pc, err, logVars, podProdChan, podClosed, conProdChan, conClosed,
                   podFeeder, contCollector, target, nontestable, listVars, promptVars,
                   scanVars, fileVars, hist>>

\* a prober worker: conProdChan <- container
verWorkerSend(w) ==
    /\ ~crashed
    /\ verWorkers[w].pc = "send"
    /\ ~conClosed
    /\ Len(conProdChan) < NumCPU
    /\ conProdChan' = Append(conProdChan, verWorkers[w].info)
    /\ verWorkers' = [verWorkers EXCEPT ![w] = [pc |-> "recv", info |-> NoInfo]]
    /\ UNCHANGED <<inVars, pc, err, logVars, podProdChan, podClosed, conClosed, podFeeder,
                   contCollector, target, nontestable, listVars, promptVars, scanVars,
                   fileVars, hist>>

\* mutant: a container without a shell falls through the switch
collectDropsNoShell(info, tgt, non) ==
    IF info.testable THEN <<Append(tgt, info), non>>
    ELSE IF info.shell # "" THEN <<tgt, Append(non, info)>>
    ELSE <<tgt, non>>

\* the two buckets after the collector has taken info
collect(info, tgt, non) ==
    IF info.testable THEN <<Append(tgt, info), non>> ELSE <<tgt, Append(non, info)>>

\* the collector: container := <-conProdChan, appended to one of the two buckets
contCollectorRecv ==
    /\ ~crashed
    /\ contCollector = "run"
    /\ conProdChan # <<>>
    /\ target' = collect(Head(conProdChan), target, nontestable)[1]
    /\ nontestable' = collect(Head(conProdChan), target, nontestable)[2]
    /\ conProdChan' = Tail(conProdChan)
    /\ UNCHANGED <<inVars, pc, err, logVars, podProdChan, podClosed, conClosed, podFeeder,
                   verWorkers, contCollector, listVars, promptVars, scanVars, fileVars, hist>>

\* the collector: the range loop ends, contCollectorWg.Done()
contCollectorExit ==
    /\ ~crashed
    /\ contCollector = "run"
    /\ conProdChan = <<>> /\ conClosed
    /\ contCollector' = "done"
    /\ UNCHANGED <<inVars, pc, err, logVars, podProdChan, podClosed, conProdChan, conClosed,
                   podFeeder, verWorkers, target, nontestable, listVars, promptVars, scanVars,
                   fileVars, hist>>


\* ----------------------------------------------------- scan: the goroutines

\* mutant: the flags are passed for every format
shellCommandAlwaysFlags(fmt, shell) == <<shell, "-s", "--", "-c">>

\* strings.Fields(shell) of a scan worker: the shell, with "-s -- -c" for the text format
shellCommand(fmt, shell) ==
    IF fmt = "text" THEN <<shell, "-s", "--", "-c">> ELSE <<shell>>

\* ansihtml.ConvertToHTML, line by line
ConvertToHTML(raw) == [i \in 1..Len(raw) |-> <<"html", raw[i]>>]

RECURSIVE Join(_, _)
\* strings.Join: the lines with sep between them
Join(lines, sep) ==
    IF lines = <<>> THEN <<>>
    ELSE IF Len(lines) = 1 THEN lines
    ELSE <<lines[1], sep>> \o Join(Tail(lines), sep)

\* mutant: the header and the footer are written for every format
saveScanReportFramed(fmt, scanReport) ==
    <<"htmlHeader">> \o (IF fmt = "html" THEN ConvertToHTML(Join(scanReport, "\n"))
                         ELSE Join(scanReport, "\n")) \o <<"htmlFooter">>

\* saveScan: the bytes written
saveScanReport(fmt, scanReport) ==
    IF fmt = "html"
    THEN <<"htmlHeader">> \o ConvertToHTML(Join(scanReport, "\n")) \o <<"htmlFooter">>
    ELSE Join(scanReport, "\n")

\* saveScan: the file name, from pod, container, the second of the clock and the format
saveScanFileName(podName, containerName, t, fmt) == <<podName, containerName, t, fmt>>

\* os.WriteFile: the directory after name has been written with report
WriteFile(dir, name, report) ==
    {f \in dir : f.name # name} \cup {[name |-> name, report |-> report]}

\* mutant: the feeder ranges over every classified container
fanOutListAll == targetContainers \o nontestableContainers

\* the list the scan feeder ranges over
fanOutList == targetContainers

\* the feeder: contProdChan <- container, for each of targetContainers
contFanOutSend ==
    /\ ~crashed
    /\ contFanOut.pc = "run"
    /\ contFanOut.i <= Len(fanOutList)
    /\ ~contClosed
    /\ Len(contProdChan) < NumCPU * 2
    /\ contProdChan' = Append(contProdChan, rangeItem(fanOutList, contFanOut.i))
    /\ contFanOut' = [pc |-> IF contFanOut.i = Len(fanOutList) THEN "done" ELSE "run",
                      i  |-> contFanOut.i + 1]
    /\ UNCHANGED <<inVars, pc, err, logVars, verVars, listVars, promptVars, contClosed,
                   resultsProdChan, resultsClosed, testWorkers, resultsCollector,
                   fileVars, hist>>

\* a scan worker: container := <-contProdChan; shell := container.shell (+ flags)
testWorkerRecv(w) ==
    /\ ~crashed
    /\ testWorkers[w].pc = "recv"
    /\ contProdChan # <<>>
    /\ testWorkers' = [testWorkers EXCEPT
                         ![w] = [pc |-> "exec", info |-> Head(contProdChan),
                                 cmd |-> shellCommand(format, Head(contProdChan).shell),
                                 stdout |-> <<>>]]
    /\ contProdChan' = Tail(contProdChan)
    /\ UNCHANGED <<inVars, pc, err, logVars, verVars, listVars, promptVars, contClosed,
                   resultsProdChan, resultsClosed, contFanOut, resultsCollector,
                   fileVars, hist>>

\* a scan worker: the range loop ends, testWorkerWg.Done()
testWorkerExit(w) ==
    /\ ~crashed
    /\ testWorkers[w].pc = "recv"
    /\ contProdChan = <<>> /\ contClosed
    /\ testWorkers' = [testWorkers EXCEPT ![w].pc = "done"]
    /\ UNCHANGED <<inVars, pc, err, logVars, verVars, listVars, promptVars, contProdChan,
                   contClosed, resultsProdChan, resultsClosed, contFanOut,
                   resultsCollector, fileVars, hist>>

\* where a scan worker goes after Exec returned status
afterExec(status) == IF status # "Success" THEN "log" ELSE "send"

\* execStatus.Stdout: what the script printed in container c before Exec
\* returned status
Stdout(c, status) == IF status = "Success" THEN <<c>> ELSE <<>>

\* a scan worker: k8s.Exec of the script; the container answers with any status class
testWorkerExec(w) ==
    /\ ~crashed
    /\ testWorkers[w].pc = "exec"
    /\ \E status \in RetCodes :
          /\ testWorkers' = [testWorkers EXCEPT
                                ![w].pc = afterExec(status),
                                ![w].stdout = Stdout(testWorkers[w].info.container, status)]
          /\ hist' = IF status = "Success"
                     THEN [hist EXCEPT !.execOK[testWorkers[w].info.container] = @ + 1]
                     ELSE [hist EXCEPT !.execFail[testWorkers[w].info.container] = @ + 1]
    /\ UNCHANGED <<inVars, pc, err, logVars, verVars, listVars, promptVars, contProdChan,
                   contClosed, resultsProdChan, resultsClosed, contFanOut,
                   resultsCollector, fileVars>>

\* a scan worker: log(strings.Join(execStatus.Error, "\n"))
testWorkerLog(w) ==
    /\ ~crashed
    /\ testWorkers[w].pc = "log"
    /\ log(Msg("ExecError", 0))
    /\ testWorkers' = [testWorkers EXCEPT ![w].pc = "send"]
    /\ UNCHANGED <<inVars, pc, err, logClosed, logDone, stderr, verVars, listVars, promptVars,
                   contProdChan, contClosed, resultsProdChan, resultsClosed, contFanOut,
                   resultsCollector, fileVars, hist>>

\* a scan worker: resultsProdChan <- Result{pod, container, execStatus.Stdout}
testWorkerSend(w) ==
    /\ ~crashed
    /\ testWorkers[w].pc = "send"
    /\ ~resultsClosed
    /\ Len(resultsProdChan) < NumCPU * 2
    /\ resultsProdChan' = Append(resultsProdChan,
                                 [podName       |-> testWorkers[w].info.container.Pod,
                                  containerName |-> testWorkers[w].info.container.Container,
                                  scanReport    |-> testWorkers[w].stdout])
    /\ hist' = [hist EXCEPT !.pushed[testWorkers[w].info.container] = @ + 1]
    /\ testWorkers' = [testWorkers EXCEPT
                         ![w] = [pc |-> "recv", info |-> NoInfo, cmd |-> <<>>, stdout |-> <<>>]]
    /\ UNCHANGED <<inVars, pc, err, logVars, verVars, listVars, promptVars, contProdChan,
                   contClosed, resultsClosed, contFanOut, resultsCollector, fileVars>>

\* the results collector: result := <-resultsProdChan; saveScan(...): the clock is
\* read, the file is written or os.WriteFile fails
resultsCollectorRecv ==
    /\ ~crashed
    /\ resultsCollector.pc = "recv"
    /\ resultsProdChan # <<>>
    /\ resultsProdChan' = Tail(resultsProdChan)
    /\ \E t \in now..MaxTime, ok \in BOOLEAN :
          LET result == Head(resultsProdChan)
              name   == saveScanFileName(result.podName, result.containerName, t, format)
          IN  /\ now' = t
              /\ files' = IF ok
                          THEN WriteFile(files, name, saveScanReport(format, result.scanReport))
                          ELSE files
              /\ resultsCollector' = [resultsCollector EXCEPT
                                        !.pc = IF ok THEN "count" ELSE "logErr",
                                        !.result = result]
              /\ hist' = [hist EXCEPT !.writeFail = IF ok THEN @ ELSE @ + 1]
    /\ UNCHANGED <<inVars, pc, err, logVars, verVars, listVars, promptVars, contProdChan,
                   contClosed, resultsClosed, contFanOut, testWorkers>>

\* what a step of the results collector that only logs leaves alone
collectorRest == <<inVars, pc, err, logClosed, logDone, stderr, verVars, listVars, promptVars,
                   contProdChan, contClosed, resultsProdChan, resultsClosed, contFanOut,
                   testWorkers, fileVars, hist>>

\* the results collector: log(err.Error())
resultsCollectorLogErr ==
    /\ ~crashed
    /\ resultsCollector.pc = "logErr"
    /\ log(Msg("WriteError", 0))
    /\ resultsCollector' = [resultsCollector EXCEPT !.pc = "logReport"]
    /\ UNCHANGED collectorRest

\* mutant: the collector returns after a write that failed
afterWriteErrorReturn == "done"

\* mutant: the collector takes the next Result after a write that failed
afterWriteErrorContinue == "recv"

\* the results collector: after the if err != nil block the loop body goes on with cnt++
afterWriteError == "count"

\* the results collector: log(strings.Join(result.scanReport, "\n"))
resultsCollectorLogReport ==
    /\ ~crashed
    /\ resultsCollector.pc = "logReport"
    /\ log(Msg("Report", resultsCollector.result.scanReport))
    /\ resultsCollector' = [resultsCollector EXCEPT !.pc = afterWriteError]
    /\ UNCHANGED collectorRest

\* the results collector: cnt++; log "\rAnalyzed %d containers"
resultsCollectorCount ==
    /\ ~crashed
    /\ resultsCollector.pc = "count"
    /\ log(Msg("Analyzed", resultsCollector.cnt + 1))
    /\ resultsCollector' = [pc |-> "recv", cnt |-> resultsCollector.cnt + 1,
                            result |-> NoResult]
    /\ UNCHANGED collectorRest

\* the results collector: the range loop ends, log "\n", resultsCollectorWg.Done()
resultsCollectorExit ==
    /\ ~crashed
    /\ resultsCollector.pc = "recv"
    /\ resultsProdChan = <<>> /\ resultsClosed
    /\ log(Msg("Newline", 0))
    /\ resultsCollector' = [resultsCollector EXCEPT !.pc = "done"]
    /\ UNCHANGED collectorRest

\* ------------------------------------------------------- the specification

Next ==
    \/ PreRunE
    \/ scanContainersStarted \/ scanContainersCreating
    \/ scanContainersNone \/ scanContainersFound
    \/ scanIdentifying
    \/ verifyContainers \/ verifyClosePod \/ verifyCloseCon \/ verifyReturn
    \/ podFeederSend
    \/ \E w \in DOMAIN verWorkers : verWorkerRecv(w)
    \/ \E w \in DOMAIN verWorkers : verWorkerProbe(w)
    \/ \E w \in DOMAIN verWorkers : verWorkerSend(w)
    \/ \E w \in DOMAIN verWorkers : verWorkerExit(w)
    \/ contCollectorRecv \/ contCollectorExit
    \/ scanFound \/ scanTarget \/ scanNoTarget \/ scanTargetTable
    \/ scanNontestable \/ scanAllTestable \/ scanNontestableTable
    \/ scanGate \/ promptYN \/ promptYNReadError \/ promptYNError
    \/ promptYNScanf \/ promptYNYes \/ promptYNNo \/ promptYNOther \/ promptYNInvalid
    \/ scanProceeding
    \/ scanSpawn \/ scanCloseCont \/ scanCloseResults \/ scanReturn
    \/ contFanOutSend
    \/ \E w \in DOMAIN testWorkers : testWorkerRecv(w)
    \/ \E w \in DOMAIN testWorkers : testWorkerExec(w)
    \/ \E w \in DOMAIN testWorkers : testWorkerLog(w)
    \/ \E w \in DOMAIN testWorkers : testWorkerSend(w)
    \/ \E w \in DOMAIN testWorkers : testWorkerExit(w)
    \/ resultsCollectorRecv \/ resultsCollectorLogErr \/ resultsCollectorLogReport
    \/ resultsCollectorCount \/ resultsCollectorExit
    \/ stoplog \/ stoplogWait
    \/ LogPrint \/ LogExit

Spec == Init /\ [][Next]_vars

\* ------------------------------------ run(), every path

\* run() from its first line, after PreRunE has accepted the format: the paths
\* that return before scanContainers, and scanContainers itself. The flags
\* --version and --list and the answers of the cluster are drawn where run
\* tests them.

\* the values of -o PreRunE accepts
RunFormats == {"ansi", "text", "json"}

RunInit ==
    /\ containers \in ContainerLists
    /\ quiet \in BOOLEAN
    /\ format \in RunFormats
    /\ probe = NoProbe
    /\ pool = NoPool
    /\ pc = "run"
    /\ InitState

\* run: if version { fmt.Println(appName, AppVersion); return nil }
runVersion ==
    /\ ~crashed
    /\ pc = "run"
    /\ \E version \in BOOLEAN :
          IF version
          THEN pc' = "stoplog" /\ err' = "nil"
          ELSE pc' = "NewK8SExec" /\ UNCHANGED err
    /\ UNCHANGED <<logBuffer, logged, crashed, mainRest>>

\* run: k8sexec.NewK8SExec; on an error return "Internal application error"
runNewK8SExec ==
    /\ ~crashed
    /\ pc = "NewK8SExec"
    /\ \E ok \in BOOLEAN :
          IF ok
          THEN pc' = "list" /\ UNCHANGED err
          ELSE pc' = "stoplog" /\ err' = "Internal application error"
    /\ UNCHANGED <<logBuffer, logged, crashed, mainRest>>

\* run: if list { return listContainers(k8sExecClient) }
runList ==
    /\ ~crashed
    /\ pc = "list"
    /\ \E list \in BOOLEAN :
          pc' = IF list THEN "listContainers" ELSE "getContainers"
    /\ UNCHANGED <<err, logBuffer, logged, crashed, mainRest>>

\* run: getContainers; on an error return it, else scanContainers(containers)
runGetContainers ==
    /\ ~crashed
    /\ pc = "getContainers"
    /\ \E ok \in BOOLEAN :
          IF ok
          THEN pc' = "scanContainers" /\ UNCHANGED err
          ELSE pc' = "stoplog" /\ err' = "getContainers failed"
    /\ UNCHANGED <<logBuffer, logged, crashed, mainRest>>

\* listContainers: log "[+] Started"
listContainersStarted ==
    /\ ~crashed
    /\ pc = "listContainers"
    /\ log(Msg("Started", 0))
    /\ pc' = "listContainers2"
    /\ UNCHANGED <<err, mainRest>>

\* listContainers: log "[+] Creating a list of pods/containers for %s namespace"
listContainersCreating ==
    /\ ~crashed
    /\ pc = "listContainers2"
    /\ log(Msg("CreatingList", 0))
    /\ pc' = "listContainers3"
    /\ UNCHANGED <<err, mainRest>>

\* listContainers: GetPod for each pod of -p, or GetUniquePods; on an error return it
listContainersPods ==
    /\ ~crashed
    /\ pc = "listContainers3"
    /\ \E ok \in BOOLEAN :
          IF ok
          THEN pc' = "listContainers4" /\ UNCHANGED err
          ELSE pc' = "stoplog" /\ err' = "GetPod failed"
    /\ UNCHANGED <<logBuffer, logged, crashed, mainRest>>

\* listContainers: t.Render(); log(buf.String()); return nil
listContainersTable ==
    /\ ~crashed
    /\ pc = "listContainers4"
    /\ log(Msg("ListTable", 0))
    /\ pc' = "stoplog"
    /\ err' = "nil"
    /\ UNCHANGED mainRest

RunNext ==
    \/ runVersion \/ runNewK8SExec \/ runList \/ runGetContainers
    \/ listContainersStarted \/ listContainersCreating
    \/ listContainersPods \/ listContainersTable
    \/ scanContainersStarted \/ scanContainersCreating
    \/ scanContainersNone \/ scanContainersFound
    \/ scanIdentifying
    \/ verifyContainers \/ verifyClosePod \/ verifyCloseCon \/ verifyReturn
    \/ podFeederSend
    \/ \E w \in DOMAIN verWorkers : verWorkerRecv(w)
    \/ \E w \in DOMAIN verWorkers : verWorkerProbe(w)
    \/ \E w \in DOMAIN verWorkers : verWorkerSend(w)
    \/ \E w \in DOMAIN verWorkers : verWorkerExit(w)
    \/ contCollectorRecv \/ contCollectorExit
    \/ scanFound \/ scanTarget \/ scanNoTarget \/ scanTargetTable
    \/ scanNontestable \/ scanAllTestable \/ scanNontestableTable
    \/ scanGate \/ promptYN \/ promptYNReadError \/ promptYNError
    \/ promptYNScanf \/ promptYNYes \/ promptYNNo \/ promptYNOther \/ promptYNInvalid
    \/ scanProceeding
    \/ scanSpawn \/ scanCloseCont \/ scanCloseResults \/ scanReturn
    \/ contFanOutSend
    \/ \E w \in DOMAIN testWorkers : testWorkerRecv(w)
    \/ \E w \in DOMAIN testWorkers : testWorkerExec(w)
    \/ \E w \in DOMAIN testWorkers : testWorkerLog(w)
    \/ \E w \in DOMAIN testWorkers : testWorkerSend(w)
    \/ \E w \in DOMAIN testWorkers : testWorkerExit(w)
    \/ resultsCollectorRecv \/ resultsCollectorLogErr \/ resultsCollectorLogReport
    \/ resultsCollectorCount \/ resultsCollectorExit
    \/ stoplog \/ stoplogWait
    \/ LogPrint \/ LogExit

RunSpec == RunInit /\ [][RunNext]_vars

\* ------------------------------------ the run under a fair scheduler

\* The Go scheduler runs every goroutine that can take a step, and every exec
\* call returns: each goroutine of the two pipelines, the main goroutine at its
\* waits and closes, and the log goroutine are weakly fair. The user at the
\* prompt is not.

\* which container a ref names makes no difference to who waits for whom: the
\* lists of up to MaxContainers refs to the first container
LiveLists == {s \in ContainerLists : \A i \in 1..Len(s) : s[i] = FirstRef}

LiveInit ==
    /\ containers \in LiveLists
    /\ quiet = FALSE
    /\ format = "text"
    /\ probe = NoProbe
    /\ pool = NoPool
    /\ InitProcess

mainPipelineStep ==
    \/ verifyClosePod \/ verifyCloseCon \/ verifyReturn
    \/ scanCloseCont \/ scanCloseResults \/ scanReturn

verWorkerStep(w) ==
    verWorkerRecv(w) \/ verWorkerProbe(w) \/ verWorkerSend(w) \/ verWorkerExit(w)

contCollectorStep == contCollectorRecv \/ contCollectorExit

testWorkerStep(w) ==
    \/ testWorkerRecv(w) \/ testWorkerExec(w) \/ testWorkerLog(w)
    \/ testWorkerSend(w) \/ testWorkerExit(w)

resultsCollectorStep ==
    \/ resultsCollectorRecv \/ resultsCollectorLogErr \/ resultsCollectorLogReport
    \/ resultsCollectorCount \/ resultsCollectorExit

\* a step of a goroutine of the pipelines or of the log goroutine
PipelineStep ==
    \/ mainPipelineStep
    \/ podFeederSend
    \/ \E w \in DOMAIN verWorkers : verWorkerStep(w)
    \/ contCollectorStep
    \/ contFanOutSend
    \/ \E w \in DOMAIN testWorkers : testWorkerStep(w)
    \/ resultsCollectorStep
    \/ LogPrint

\* while one of these goroutines can take a step, one of them is run
Fairness == WF_vars(PipelineStep)

LiveSpec == LiveInit /\ [][Next]_vars /\ Fairness


\* ------------------------------------ the run with no required utility

\* utils is a package variable that no statement assigns: the process always runs
\* with the three commands of its declaration, and the guard of verifyContainers
\* on the empty list is never taken.  This specification is the same process
\* with utils declared empty.

\* verifyContainers with utils empty
verifyContainersNoUtils == verifyContainersOf(<<>>)

\* the steps that are left: no goroutine besides main and the log goroutine exists
EmptyUtilsNext ==
    \/ PreRunE
    \/ scanContainersStarted \/ scanContainersCreating
    \/ scanContainersNone \/ scanContainersFound
    \/ scanIdentifying
    \/ verifyContainersNoUtils
    \/ scanFound \/ scanNoTarget
    \/ stoplog \/ stoplogWait
    \/ LogPrint \/ LogExit

EmptyUtilsSpec == Init /\ [][EmptyUtilsNext]_vars

\* ------------------------------------ the results collector on one Result

\* The loop body of the results collector, saveScan included, for one Result in
\* the queue and every value the switch of saveScan tells apart.

\* the lines of a captured output that are tried
ReportLines == {"line1", "line2"}

\* the values of format saveScan can see
SaveFormats == {"ansi", "text", "json", "html"}

SaveInit ==
    /\ containers = <<FirstRef>>
    /\ quiet \in BOOLEAN
    /\ format \in SaveFormats
    /\ probe = NoProbe
    /\ pool = NoPool
    /\ pc = "testWorkerWg.Wait"
    /\ err = ""
    /\ logBuffer = <<>> /\ logClosed = FALSE /\ logDone = FALSE
    /\ logged = <<>>
    /\ stderr = <<>> /\ crashed = FALSE
    /\ podProdChan = <<>> /\ podClosed = TRUE
    /\ conProdChan = <<>> /\ conClosed = TRUE
    /\ podFeeder = [pc |-> "done", i |-> 2]
    /\ verWorkers = <<[pc |-> "done", info |-> NoInfo]>>
    /\ contCollector = "done"
    /\ \E shell \in {"sh", "bash"} :
          /\ target = <<[container |-> FirstRef, shell |-> shell, testable |-> TRUE]>>
          /\ targetContainers = target
    /\ nontestable = <<>> /\ nontestableContainers = <<>>
    /\ prompts = 0
    /\ response = <<>>
    /\ contProdChan = <<>> /\ contClosed = TRUE
    /\ \E scanReport \in SeqsUpTo(ReportLines, MaxLines) :
          resultsProdChan = <<[podName |-> FirstRef.Pod, containerName |-> FirstRef.Container,
                               scanReport |-> scanReport]>>
    /\ resultsClosed = FALSE
    /\ contFanOut = [pc |-> "done", i |-> 2]
    /\ testWorkers = <<[pc |-> "recv", info |-> NoInfo, cmd |-> <<>>, stdout |-> <<>>]>>
    /\ resultsCollector = [pc |-> "recv", cnt |-> 0, result |-> NoResult]
    /\ files = {}
    /\ now = 0
    /\ hist = [probes |-> Zero, execOK |-> Zero, execFail |-> Zero, pushed |-> Zero,
               writeFail |-> 0, decision |-> "none"]

SaveNext ==
    \/ resultsCollectorRecv \/ resultsCollectorLogErr \/ resultsCollectorLogReport
    \/ resultsCollectorCount
    \/ LogPrint

SaveScanSpec == SaveInit /\ [][SaveNext]_vars

\* ------------------------------------ the scan workers of src/main.go

\* The scan stage of src/main.go, from the point of a quiet run where the lists
\* are known. Its feeder, collector and waits are those of cmd/misc.go; its
\* workers differ: each has one stdout buffer, declared outside the range loop
\* and handed to every exec, and the Result holds a copy of that buffer.

MainFormats == {"ansi", "text"}

MainScanInit ==
    /\ containers \in ContainerLists \ {<<>>}
    /\ quiet = TRUE
    /\ format \in MainFormats
    /\ probe = NoProbe
    /\ pool = NoPool
    /\ pc = "scanSpawn"
    /\ err = ""
    /\ logBuffer = <<>> /\ logClosed = FALSE /\ logDone = FALSE
    /\ logged = <<>>
    /\ stderr = <<>> /\ crashed = FALSE
    /\ podProdChan = <<>> /\ podClosed = TRUE
    /\ conProdChan = <<>> /\ conClosed = TRUE
    /\ podFeeder = [pc |-> "done", i |-> Len(containers) + 1]
    /\ verWorkers = [w \in 1..Len(containers) |-> [pc |-> "done", info |-> NoInfo]]
    /\ contCollector = "done"
    /\ \E shell \in {"sh", "bash"} :
          /\ target = [i \in 1..Len(containers) |->
                         [container |-> containers[i], shell |-> shell, testable |-> TRUE]]
          /\ targetContainers = target
    /\ nontestable = <<>> /\ nontestableContainers = <<>>
    /\ prompts = 0
    /\ response = <<>>
    /\ contProdChan = <<>> /\ contClosed = FALSE
    /\ resultsProdChan = <<>> /\ resultsClosed = FALSE
    /\ contFanOut = [pc |-> "off", i |-> 1]
    /\ testWorkers = <<>>
    /\ resultsCollector = [pc |-> "off", cnt |-> 0, result |-> NoResult]
    /\ files = {}
    /\ now = 0
    /\ hist = [probes |-> [c \in ContainerRefs |-> Occurrences(containers, c)],
               execOK |-> Zero, execFail |-> Zero, pushed |-> Zero,
               writeFail |-> 0, decision |-> "none"]

\* a scan worker of main.go: container := <-contProdChan; the buffer is not reset
mainTestWorkerRecv(w) ==
    /\ ~crashed
    /\ testWorkers[w].pc = "recv"
    /\ contProdChan # <<>>
    /\ testWorkers' = [testWorkers EXCEPT
                         ![w].pc = "exec",
                         ![w].info = Head(contProdChan),
                         ![w].cmd = shellCommand(format, Head(contProdChan).shell)]
    /\ contProdChan' = Tail(contProdChan)
    /\ UNCHANGED <<inVars, pc, err, logVars, verVars, listVars, promptVars, contClosed,
                   resultsProdChan, resultsClosed, contFanOut, resultsCollector,
                   fileVars, hist>>

\* a scan worker of main.go: exec(..., &stdout, &stderr, false) writes what the
\* script printed after what the buffer already holds
mainTestWorkerExec(w) ==
    /\ ~crashed
    /\ testWorkers[w].pc = "exec"
    /\ \E status \in RetCodes :
          /\ testWorkers' = [testWorkers EXCEPT
                                ![w].pc = afterExec(status),
                                ![w].stdout = @ \o Stdout(testWorkers[w].info.container,
                                                          status)]
          /\ hist' = IF status = "Success"
                     THEN [hist EXCEPT !.execOK[testWorkers[w].info.container] = @ + 1]
                     ELSE [hist EXCEPT !.execFail[testWorkers[w].info.container] = @ + 1]
    /\ UNCHANGED <<inVars, pc, err, logVars, verVars, listVars, promptVars, contProdChan,
                   contClosed, resultsProdChan, resultsClosed, contFanOut,
                   resultsCollector, fileVars>>

\* a scan worker of main.go: resultsProdChan <- Result{podName, containerName, stdout}
mainTestWorkerSend(w) ==
    /\ ~crashed
    /\ testWorkers[w].pc = "send"
    /\ ~resultsClosed
    /\ Len(resultsProdChan) < NumCPU * 2
    /\ resultsProdChan' = Append(resultsProdChan,
                                 [podName       |-> testWorkers[w].info.container.Pod,
                                  containerName |-> testWorkers[w].info.container.Container,
                                  scanReport    |-> testWorkers[w].stdout])
    /\ hist' = [hist EXCEPT !.pushed[testWorkers[w].info.container] = @ + 1]
    /\ testWorkers' = [testWorkers EXCEPT
                         ![w].pc = "recv", ![w].info = NoInfo, ![w].cmd = <<>>]
    /\ UNCHANGED <<inVars, pc, err, logVars, verVars, listVars, promptVars, contProdChan,
                   contClosed, resultsClosed, contFanOut, resultsCollector, fileVars>>

MainScanNext ==
    \/ scanSpawn \/ scanCloseCont \/ scanCloseResults \/ scanReturn
    \/ contFanOutSend
    \/ \E w \in DOMAIN testWorkers : mainTestWorkerRecv(w)
    \/ \E w \in DOMAIN testWorkers : mainTestWorkerExec(w)
    \/ \E w \in DOMAIN testWorkers : testWorkerLog(w)
    \/ \E w \in DOMAIN testWorkers : mainTestWorkerSend(w)
    \/ \E w \in DOMAIN testWorkers : testWorkerExit(w)
    \/ resultsCollectorRecv \/ resultsCollectorLogErr \/ resultsCollectorLogReport
    \/ resultsCollectorCount \/ resultsCollectorExit

MainScanSpec == MainScanInit /\ [][MainScanNext]_vars

\* ------------------------------------ the prober pool, by numbers

\* verifyContainers for a list of n containers, the goroutines counted and not
\* told apart: podProdChan has room for all n refs (make(chan, len(containers))),
\* so what limits the probings that run at once is the number of workers and
\* the number of refs left.

PoolSizes == {0, 1, 2, MaxPool - 1, MaxPool}

PoolInit ==
    /\ containers = <<>>
    /\ quiet = TRUE
    /\ format = "ansi"
    /\ InitProcess
    /\ probe = NoProbe
    /\ \E n \in PoolSizes :
          pool = [pc |-> "verifyContainers", n |-> n, workers |-> 0, left |-> n, busy |-> 0]

poolRest == <<containers, quiet, format, probe, pc, err, logVars, verVars, listVars,
              promptVars, scanVars, fileVars, hist>>

\* the loop that starts the workers
poolStart ==
    /\ pool.pc = "verifyContainers"
    /\ pool' = [pool EXCEPT !.pc = "contVerWorkerWg.Wait", !.workers = verWorkerCount(pool.n)]
    /\ UNCHANGED poolRest

\* a worker receives a ref and starts getShellInContainer
poolProbe ==
    /\ pool.pc = "contVerWorkerWg.Wait"
    /\ pool.left > 0
    /\ pool.busy < pool.workers
    /\ pool' = [pool EXCEPT !.left = @ - 1, !.busy = @ + 1]
    /\ UNCHANGED poolRest

\* a worker's checkUtils has returned; the worker sends its ContainerInfo
poolSend ==
    /\ pool.pc = "contVerWorkerWg.Wait"
    /\ pool.busy > 0
    /\ pool' = [pool EXCEPT !.busy = @ - 1]
    /\ UNCHANGED poolRest

\* every ref is taken and every worker has left its loop: verifyContainers returns
poolReturn ==
    /\ pool.pc = "contVerWorkerWg.Wait"
    /\ pool.left = 0 /\ pool.busy = 0
    /\ pool' = [pool EXCEPT !.pc = "returned"]
    /\ UNCHANGED poolRest

PoolNext == poolStart \/ poolProbe \/ poolSend \/ poolReturn

PoolSpec == PoolInit /\ [][PoolNext]_vars

\* ------------------------------------ one probing, command by command

\* A prober worker's body for one container, one k8s.Exec at a time, in a
\* container that answers each command as env says.

ProbeInit ==
    /\ containers = <<FirstRef>>
    /\ quiet = TRUE
    /\ format = "ansi"
    /\ InitProcess
    /\ \E env \in [ProbeCommands -> RetCodes] :
          probe = [pc |-> "sh", env |-> env, shell |-> "", i |-> 1, utilFound |-> TRUE,
                   results |-> <<>>, issued |-> <<>>, testable |-> FALSE]
    /\ pool = NoPool

probeRest == <<containers, quiet, format, pool, pc, err, logVars, verVars, listVars, promptVars,
               scanVars, fileVars, hist>>

\* getShellInContainer: Exec "sh --version"; return "sh" on Success
probeSh ==
    /\ probe.pc = "sh"
    /\ probe' = [probe EXCEPT
                   !.issued = Append(@, "sh --version"),
                   !.shell  = IF execSucceeded(probe.env["sh --version"]) THEN "sh" ELSE "",
                   !.pc     = IF execSucceeded(probe.env["sh --version"]) THEN "checkUtils"
                              ELSE "bash"]
    /\ UNCHANGED probeRest

\* getShellInContainer: Exec "bash --version"; return "bash" on Success, else ""
probeBash ==
    /\ probe.pc = "bash"
    /\ probe' = [probe EXCEPT
                   !.issued = Append(@, "bash --version"),
                   !.shell  = IF execSucceeded(probe.env["bash --version"]) THEN "bash"
                              ELSE "",
                   !.pc     = "checkUtils"]
    /\ UNCHANGED probeRest

\* checkUtils: one iteration of the loop: result, _ := checkUtilInContainer(...);
\* utilFound = utilFound && result; if result == false { break }
probeUtil ==
    /\ probe.pc = "checkUtils"
    /\ probe.i <= Len(utils)
    /\ LET result == checkUtilInContainer(probe.env, utils[probe.i])
       IN  probe' = [probe EXCEPT
                       !.issued    = Append(@, utils[probe.i]),
                       !.results   = Append(@, result),
                       !.utilFound = @ /\ result,
                       !.i         = @ + 1,
                       !.pc        = IF breakLoop(result) \/ probe.i = Len(utils)
                                     THEN "testable" ELSE "checkUtils"]
    /\ UNCHANGED probeRest

\* container.testable = checkUtils(...) && container.shell != ""
probeTestable ==
    /\ probe.pc = "testable"
    /\ probe' = [probe EXCEPT !.testable = testableFlag(probe.utilFound, probe.shell),
                              !.pc = "done"]
    /\ UNCHANGED probeRest

ProbeNext == probeSh \/ probeBash \/ probeUtil \/ probeTestable

ProbeSpec == ProbeInit /\ [][ProbeNext]_vars


\* ------------------------------------------------------------- properties

\* the containers of a list of ContainerInfo, as often as they are listed
Refs(infos) == Table(infos)

\* audit-script Execs that have returned, for container c
ExecCount(c) == hist.execOK[c] + hist.execFail[c]

RECURSIVE SumOver(_, _)
\* the sum of f over the set S
SumOver(f, S) ==
    IF S = {} THEN 0
    ELSE LET x == CHOOSE y \in S : TRUE IN f[x] + SumOver(f, S \ {x})

\* messages of one kind the log goroutine has printed
Printed(kind) == Cardinality({k \in 1..Len(stderr) : stderr[k][1] = kind})

\* verifyContainers has returned to scan
verifyReturned == contCollector = "done" /\ pc # "contCollectorWg.Wait"

\* a scan worker is about to call, or has called, Exec with the audit script
ScanExecStarted ==
    \/ \E c \in ContainerRefs : ExecCount(c) > 0
    \/ \E w \in DOMAIN testWorkers : testWorkers[w].pc = "exec"

\* C1: when verifyContainers returns, every occurrence of a container in the input
\* list is in exactly one of the two returned lists, exactly once: per container the
\* two lists together hold it as often as the input does, the testable list holds only
\* entries flagged testable and the nontestable list only entries not flagged
C1_Partition ==
    verifyReturned =>
        /\ \A c \in ContainerRefs :
              Occurrences(Refs(targetContainers), c)
                + Occurrences(Refs(nontestableContainers), c) = Occurrences(containers, c)
        /\ \A i \in DOMAIN targetContainers : targetContainers[i].testable
        /\ \A j \in DOMAIN nontestableContainers : ~nontestableContainers[j].testable

\* C1 witness: the same container listed twice, one occurrence in each list
C1_Witness ==
    /\ verifyReturned
    /\ Len(containers) = 2 /\ containers[1] = containers[2]
    /\ Len(targetContainers) = 1 /\ Len(nontestableContainers) = 1

\* C2: the audit script is executed only in containers the collector of this run put
\* in the testable list: every scan worker holds an entry of that list, flagged
\* testable, and no container is executed more often than the list holds it
C2_ScanOnlyTestable ==
    /\ \A w \in DOMAIN testWorkers :
          testWorkers[w].pc \in {"exec", "log", "send"} =>
              /\ testWorkers[w].info.testable
              /\ \E i \in DOMAIN target : target[i] = testWorkers[w].info
    /\ \A c \in ContainerRefs :
          /\ ExecCount(c) + Cardinality({w \in DOMAIN testWorkers :
                                            /\ testWorkers[w].pc = "exec"
                                            /\ testWorkers[w].info.container = c})
                <= Occurrences(Refs(target), c)
          /\ ExecCount(c) > 0 => hist.probes[c] > 0

\* C2 witness: a scan worker is about to execute while another container of the run
\* was classified nontestable
C2_Witness ==
    /\ \E w \in DOMAIN testWorkers : testWorkers[w].pc = "exec"
    /\ Len(nontestableContainers) = 1

\* C3: when scan returns nil, every entry of the testable list has been executed
\* exactly once; before that none is executed more than once
C3_ScannedOnce ==
    /\ \A c \in ContainerRefs : ExecCount(c) <= Occurrences(Refs(targetContainers), c)
    /\ err = "nil" =>
          \A c \in ContainerRefs : ExecCount(c) = Occurrences(Refs(targetContainers), c)

\* C3 witness: scan returned nil after a positive answer, with two testable containers
C3_Witness ==
    /\ err = "nil"
    /\ hist.decision = "yes"
    /\ Len(targetContainers) = 2

\* C4: every occurrence of a discovered container is either not yet fed, in the input
\* queue, or was taken by a worker, exactly once; when verifyContainers returns all
\* have been taken and every worker has exited
C4_ProbedOnce ==
    /\ \A c \in ContainerRefs :
          Occurrences(SubSeq(containers, podFeeder.i, Len(containers)), c)
            + Occurrences(Refs(podProdChan), c) + hist.probes[c]
          = Occurrences(containers, c)
    /\ verifyReturned =>
          /\ \A c \in ContainerRefs : hist.probes[c] = Occurrences(containers, c)
          /\ \A w \in DOMAIN verWorkers : verWorkers[w].pc = "done"

\* C4 witness: verifyContainers returned for two different containers
C4_Witness ==
    /\ verifyReturned
    /\ Len(containers) = 2 /\ containers[1] # containers[2]

\* C5: no audit-script Exec is started before every prober worker has finished, the
\* collector has drained and left the closed output queue, and promptYN has answered
\* yes unless the run is quiet
C5_Barrier ==
    ScanExecStarted =>
        /\ DOMAIN verWorkers # {}
        /\ \A w \in DOMAIN verWorkers : verWorkers[w].pc = "done"
        /\ conProdChan = <<>> /\ conClosed
        /\ contCollector = "done"
        /\ quiet \/ hist.decision = "yes"

\* C5 witness: an Exec is about to start in a run that is not quiet
C5_Witness ==
    /\ \E w \in DOMAIN testWorkers : testWorkers[w].pc = "exec"
    /\ ~quiet
    /\ Len(containers) = 2

\* C6: a container whose audit-script Exec does not return Success gets no Result
\* and no report file, and is not executed again
C6_FailedExecDropped ==
    /\ \A c \in ContainerRefs : hist.pushed[c] <= hist.execOK[c]
    /\ Cardinality(files) <= SumOver(hist.execOK, ContainerRefs)
    /\ \A c \in ContainerRefs : ExecCount(c) <= Occurrences(Refs(targetContainers), c)

\* C7: a quiet run with one testable container whose Exec fails ends with no report
\* file, one log entry and no crash
C7_QuietFailedScan ==
    (/\ pc = "exit"
     /\ quiet
     /\ Len(targetContainers) = 1
     /\ SumOver(hist.execFail, ContainerRefs) = 1)
    => (files = {} /\ Len(stderr) = 1 /\ ~crashed)

\* C8: when the run has ended, every per-container failure has a message printed by
\* the log goroutine: an error text per failed Exec of the script and per failed
\* write, and for a container whose probes failed at least its row in the table of
\* the containers that cannot be tested
C8_EveryFailureLogged ==
    pc = "exit" =>
        /\ Printed("ExecError") >= SumOver(hist.execFail, ContainerRefs)
        /\ Printed("WriteError") >= hist.writeFail
        /\ nontestableContainers # <<>> => Printed("NontestableTable") >= 1

\* C9: a utility probe is classified present exactly when the status class of its
\* Exec is neither CommandNotFound nor CommandCannotExecute
C9_UtilPresentIff ==
    \A k \in 1..Len(probe.results) :
        probe.results[k]
          = (probe.env[utils[k]] \notin {"CommandNotFound", "CommandCannotExecute"})

\* C9 witness: a probe that failed with another status class was classified present
C9_Witness ==
    /\ Len(probe.results) >= 1
    /\ probe.env[utils[1]] = "Failure"
    /\ probe.results[1] = TRUE

\* C10: a utility probe that fails with a status class other than CommandNotFound
\* and CommandCannotExecute is classified not present, and the container nontestable
C10_OtherFailureNotPresent ==
    /\ \A k \in 1..Len(probe.results) :
          probe.env[utils[k]] = "Failure" => probe.results[k] = FALSE
    /\ (/\ probe.pc = "done"
        /\ \E k \in 1..Len(probe.results) : probe.env[utils[k]] = "Failure")
       => ~probe.testable

\* the shell probes of the container have both returned
ShellProbed == probe.pc \in {"checkUtils", "testable", "done"}

\* the utility probes of the container have ended
UtilsProbed == probe.pc \in {"testable", "done"}

\* the utility probes issued so far
UtilProbesIssued ==
    Cardinality({j \in 1..Len(probe.issued) :
                    \E k \in 1..Len(utils) : probe.issued[j] = utils[k]})

\* C11: the testable flag of a probed container is true exactly when a shell was
\* found and every required utility was probed and classified present; a container
\* whose sh and bash probes both fail is not testable, whatever the utilities answer
C11_TestableIff ==
    probe.pc = "done" =>
        /\ probe.testable = (/\ probe.shell # ""
                             /\ Len(probe.results) = Len(utils)
                             /\ \A k \in 1..Len(utils) : probe.results[k])
        /\ (/\ probe.env["sh --version"] # "Success"
            /\ probe.env["bash --version"] # "Success") => ~probe.testable

\* C11 witness: both shell probes failed, every utility is present, not testable
C11_Witness ==
    /\ probe.pc = "done"
    /\ probe.env["sh --version"] # "Success" /\ probe.env["bash --version"] # "Success"
    /\ Len(probe.results) = Len(utils)
    /\ \A k \in 1..Len(utils) : probe.results[k]
    /\ ~probe.testable

\* C12: the recorded shell is "sh" exactly when the sh probe returned Success, and
\* bash is then not probed; it is "bash" exactly when sh did not and bash did return
\* Success; it is empty exactly when neither did
C12_FirstShell ==
    ShellProbed =>
        LET shOK   == probe.env["sh --version"] = "Success"
            bashOK == probe.env["bash --version"] = "Success"
        IN  /\ (probe.shell = "sh") = shOK
            /\ shOK => \A j \in 1..Len(probe.issued) : probe.issued[j] # "bash --version"
            /\ (probe.shell = "bash") = (~shOK /\ bashOK)
            /\ (probe.shell = "") = (~shOK /\ ~bashOK)
            /\ probe.issued[1] = "sh --version"

\* C12 witness: sh failed with a status other than not-found, bash was recorded
C12_Witness ==
    /\ ShellProbed
    /\ probe.env["sh --version"] = "Failure"
    /\ probe.shell = "bash"

\* C13: a utility classified not present is the last one probed and makes the
\* container nontestable; the number of utility probes issued is the index of the
\* first utility classified not present, or the length of the list when there is none
C13_ShortCircuit ==
    /\ UtilProbesIssued = Len(probe.results)
    /\ \A k \in 1..Len(probe.results) :
          ~probe.results[k] =>
              /\ k = Len(probe.results)
              /\ UtilsProbed
              /\ probe.pc = "done" => ~probe.testable
    /\ UtilsProbed =>
          LET missing == {k \in 1..Len(utils) :
                             probe.env[utils[k]] \in {"CommandNotFound", "CommandCannotExecute"}}
          IN  UtilProbesIssued = IF missing = {} THEN Len(utils)
                                 ELSE CHOOSE k \in missing : \A m \in missing : k <= m

\* C13 witness: the first utility is missing in a container with a shell and with
\* the other utilities, one utility probe was issued
C13_Witness ==
    /\ probe.pc = "done"
    /\ probe.shell = "sh"
    /\ probe.env[utils[1]] = "CommandNotFound"
    /\ probe.env[utils[2]] = "Success" /\ probe.env[utils[3]] = "Success"
    /\ UtilProbesIssued = 1
    /\ ~probe.testable

\* RunE has returned: run is in its deferred stoplog or has returned
RunEnded == pc \in {"stoplog", "logWg.Wait"} \/ (pc = "exit" /\ logClosed)

\* no goroutine of verifyContainers was started and nothing was probed
NoProbing ==
    /\ verWorkers = <<>> /\ podFeeder.pc = "off" /\ contCollector = "off"
    /\ podProdChan = <<>> /\ conProdChan = <<>>
    /\ \A c \in ContainerRefs : hist.probes[c] = 0

\* no goroutine of the scan stage was started, no script was executed and no
\* report was written
NoScanning ==
    /\ testWorkers = <<>> /\ contFanOut.pc = "off" /\ resultsCollector.pc = "off"
    /\ contProdChan = <<>> /\ resultsProdChan = <<>>
    /\ \A c \in ContainerRefs : ExecCount(c) = 0 /\ hist.pushed[c] = 0
    /\ files = {}

\* C14: with an empty list of required utilities nothing is probed, both lists stay
\* empty, nothing is scanned, and a run that found containers ends with the error
\* that no container can be tested
C14_EmptyUtils ==
    /\ NoProbing
    /\ target = <<>> /\ nontestable = <<>>
    /\ targetContainers = <<>> /\ nontestableContainers = <<>>
    /\ NoScanning
    /\ (RunEnded /\ Len(containers) > 0) =>
          err = "Did not find any containers that can be tested"

\* C14 witness: the run has ended for two discovered containers
C14_Witness ==
    /\ pc = "exit" /\ logClosed
    /\ Len(containers) = 2
    /\ err = "Did not find any containers that can be tested"

\* C15: when no container was discovered, no goroutine of either stage is started,
\* no Exec is issued, and the run ends with the error that no container was found
C15_NoContainers ==
    Len(containers) = 0 =>
        /\ NoProbing
        /\ NoScanning
        /\ pc \notin {"scan", "verifyContainers"}
        /\ RunEnded => err = "No pods/containers found"

\* C15 witness: a run that is not quiet has ended with that error
C15_Witness ==
    /\ pc = "exit" /\ logClosed
    /\ Len(containers) = 0
    /\ ~quiet
    /\ err = "No pods/containers found"

\* the tokens that are "Y", and those that are "N", once trimmed and upper-cased
IsYes(token) == token \in {<<"Y">>, <<"y">>}
IsNo(token)  == token \in {<<"N">>, <<"n">>}

\* what C16 asks of one step of the main goroutine
C16_Step ==
    /\ (pc = "promptYNCheck" /\ pc' # pc) =>
          /\ hist.decision = "none"
          /\ IF IsYes(response) THEN hist'.decision = "yes" /\ pc' = "scanProceeding"
             ELSE IF IsNo(response) THEN hist'.decision = "no" /\ err' = "Action cancelled."
             ELSE hist'.decision = "none" /\ pc' = "promptYNInvalid"
    /\ hist'.decision # hist.decision => pc = "promptYNCheck"
    /\ (pc = "Scanf" /\ pc' # pc) =>
          /\ pc' \in {"promptYNCheck", "promptYNError"}
          /\ hist'.decision = "none"
    /\ (pc \in {"promptYNInvalid", "promptYNError"} /\ pc' # pc) =>
          /\ pc' = "promptYN"
          /\ hist'.decision = "none"

\* C16: promptYN returns true exactly on a token that is "Y" once trimmed and
\* upper-cased and false exactly on one that is "N"; on any other token and on a
\* read error it returns nothing and prompts again, whatever was read before
C16_PromptYN == [][C16_Step]_vars

\* C16 witness: promptYN has returned true after it had rejected as many answers as
\* the bound allows
C16_Witness ==
    /\ pc = "scanProceeding"
    /\ hist.decision = "yes"
    /\ prompts = MaxPrompts

\* C17: once promptYN has returned false, scan has returned the cancellation error
\* and nothing of the scan stage exists: no feeder, worker or collector, no Exec of
\* the script, no report file
C17_Declined ==
    hist.decision = "no" =>
        /\ RunEnded
        /\ err = "Action cancelled."
        /\ NoScanning

\* C17 witness: the run has ended after the operator declined to scan two testable
\* containers
C17_Witness ==
    /\ hist.decision = "no"
    /\ pc = "exit"
    /\ Len(targetContainers) = 2

\* the main goroutine is in promptYN, or has just returned from it with true
InGate ==
    pc \in {"promptYN", "Scanf", "promptYNCheck", "promptYNError", "promptYNInvalid",
            "scanProceeding"}

\* C18: a quiet run never enters promptYN: nothing is prompted, nothing is read, no
\* decision is recorded; and when it has ended with a testable container, scan has
\* returned nil after executing the script in every testable container
C18_QuietSkipsGate ==
    quiet =>
        /\ ~InGate
        /\ prompts = 0 /\ response = <<>> /\ hist.decision = "none"
        /\ (RunEnded /\ Len(targetContainers) > 0) =>
              /\ err = "nil"
              /\ testWorkers # <<>>
              /\ \A c \in ContainerRefs :
                    ExecCount(c) = Occurrences(Refs(targetContainers), c)

\* C18 witness: a quiet run has ended after scanning one of two containers
C18_Witness ==
    /\ quiet
    /\ pc = "exit"
    /\ Len(targetContainers) = 1 /\ Len(nontestableContainers) = 1
    /\ err = "nil"

\* C19: each of the three terminal conditions ends the run with an error of its own
\* and without any scanning: the error tells which condition was met; without a
\* testable container the run ends before promptYN is entered
C19_TerminalConditions ==
    /\ (RunEnded /\ Len(containers) = 0) => err = "No pods/containers found"
    /\ (RunEnded /\ Len(containers) > 0 /\ Len(targetContainers) = 0) =>
          err = "Did not find any containers that can be tested"
    /\ hist.decision = "no" => (RunEnded /\ err = "Action cancelled.")
    /\ err = "No pods/containers found" =>
          (RunEnded /\ NoScanning /\ Len(containers) = 0)
    /\ err = "Did not find any containers that can be tested" =>
          /\ RunEnded /\ NoScanning
          /\ Len(containers) > 0 /\ Len(targetContainers) = 0
          /\ prompts = 0 /\ hist.decision = "none" /\ Printed("Prompt") = 0
    /\ err = "Action cancelled." =>
          /\ RunEnded /\ NoScanning
          /\ Len(targetContainers) > 0 /\ hist.decision = "no"
    /\ InGate => Len(targetContainers) > 0

\* C19 witness: a run that is not quiet has ended because neither of two containers
\* can be tested
C19_Witness ==
    /\ pc = "exit"
    /\ ~quiet
    /\ Len(nontestableContainers) = 2
    /\ err = "Did not find any containers that can be tested"

\* C20: RunE returns nil or one of the three errors of the terminal conditions, and
\* nil whenever a container is testable and promptYN returned true or was skipped,
\* however many probes, Execs of the script or writes of a report failed; no
\* goroutine panics
C20_FailuresAbsorbed ==
    /\ ~crashed
    /\ RunEnded =>
          err \in {"nil", "No pods/containers found",
                   "Did not find any containers that can be tested", "Action cancelled."}
    /\ (RunEnded /\ Len(targetContainers) > 0 /\ (quiet \/ hist.decision = "yes")) =>
          err = "nil"

\* C20 witness: scan returned nil in a run with a nontestable container, a failed
\* Exec of the script and a failed write
C20_Witness ==
    /\ pc = "exit"
    /\ err = "nil"
    /\ Len(targetContainers) = 1 /\ Len(nontestableContainers) = 1
    /\ SumOver(hist.execFail, ContainerRefs) = 1
    /\ hist.writeFail = 1

\* the position of the first message of a kind in a list of messages, 0 if none
FirstOf(msgs, kind) ==
    IF \E k \in 1..Len(msgs) : msgs[k][1] = kind
    THEN CHOOSE k \in 1..Len(msgs) :
            /\ msgs[k][1] = kind
            /\ \A j \in 1..(k - 1) : msgs[j][1] # kind
    ELSE 0

\* what C21 asks of one step
C21_Step ==
    /\ (/\ resultsCollector.pc = "recv" /\ resultsCollector'.pc # "recv"
        /\ hist'.writeFail # hist.writeFail) => resultsCollector'.pc = "logErr"
    /\ (resultsCollector.pc = "logErr" /\ resultsCollector' # resultsCollector) =>
          /\ resultsCollector'.pc = "logReport"
          /\ resultsCollector'.result = resultsCollector.result
          /\ ~quiet => logged' = Append(logged, Msg("WriteError", 0))
    /\ (resultsCollector.pc = "logReport" /\ resultsCollector' # resultsCollector) =>
          /\ resultsCollector'.pc = "count"
          /\ ~quiet => logged' = Append(logged, Msg("Report", resultsCollector.result.scanReport))
    /\ (resultsCollector.pc = "count" /\ resultsCollector' # resultsCollector) =>
          resultsCollector'.pc = "recv"
    /\ resultsCollector'.pc = "done" =>
          /\ resultsClosed' /\ resultsProdChan' = <<>>
          /\ resultsCollector'.cnt = SumOver(hist'.pushed, ContainerRefs)

C22_ReportBytes ==
    (resultsCollector.pc = "count" /\ hist.writeFail = 0) =>
        /\ Cardinality(files) = 1
        /\ \A f \in files :
              LET raw == Join(resultsCollector.result.scanReport, "\n")
              IN  IF format = "html"
                  THEN /\ Len(f.report) = Len(raw) + 2
                       /\ f.report[1] = "htmlHeader"
                       /\ f.report[Len(f.report)] = "htmlFooter"
                       /\ SubSeq(f.report, 2, Len(f.report) - 1) = ConvertToHTML(raw)
                  ELSE /\ f.report = raw
                       /\ \A k \in 1..Len(f.report) :
                             f.report[k] \in ReportLines \cup {"\n"}

\* C22 witness: two lines were saved in the html format
C22_Witness ==
    /\ resultsCollector.pc = "count" /\ hist.writeFail = 0
    /\ format = "html"
    /\ resultsCollector.result.scanReport = <<"line1", "line2">>
    /\ \E f \in files : Len(f.report) = 5

\* C23: the format check lets a run pass exactly when -o is ansi, text or html; every
\* other value ends the run with the error of the check before scanContainers is
\* called
C23_FormatValidation ==
    pc # "PreRunE" =>
        (format \in {"ansi", "text", "html"})
          = (err # "Invalid value of the output format option")

SaveScanCalls ==
    resultsCollector.cnt
      + (IF resultsCollector.pc \in {"logErr", "logReport", "count"} THEN 1 ELSE 0)
SaveScanWritten == SaveScanCalls - hist.writeFail

\* C25: every Result that was written is in a file of its own: the directory holds
\* as many report files as writes have succeeded, none was written over
C25_WriteOnce == Cardinality(files) = SaveScanWritten

\* the Results the collector has taken from the queue
ResultsReceived == SumOver(hist.pushed, ContainerRefs) - Len(resultsProdChan)

\* the numbers of the "Analyzed %d containers" messages sent, in order
AnalyzedValues ==
    LET IsAnalyzed(m) == m[1] = "Analyzed"
        sent == SelectSeq(logged, IsAnalyzed)
    IN  [k \in 1..Len(sent) |-> sent[k][2]]

\* C26: cnt is the number of Results whose loop body is finished, whether their
\* write succeeded or failed; the numbers rendered are 1, 2, ... up to cnt in that
\* order, and when the collector ends cnt is the number of Results it received
C26_ProgressCounter ==
    /\ resultsCollector.cnt = ResultsReceived - (SaveScanCalls - resultsCollector.cnt)
    /\ resultsCollector.pc \in {"logErr", "logReport", "count"} \/ SaveScanCalls = ResultsReceived
    /\ ~quiet => AnalyzedValues = [k \in 1..resultsCollector.cnt |-> k]
    /\ resultsCollector.pc = "done" =>
          resultsCollector.cnt = SumOver(hist.pushed, ContainerRefs)

\* C26 witness: the collector has ended after two Results, one of which could not
\* be written
C26_Witness ==
    /\ ~quiet
    /\ resultsCollector.pc = "done"
    /\ hist.writeFail = 1
    /\ AnalyzedValues = <<1, 2>>

\* C27: the probings that run at once never exceed the ceiling, and the pool has
\* min(ceiling, number of containers) workers
C27_PoolCeiling ==
    pool.pc \in {"contVerWorkerWg.Wait", "returned"} =>
        /\ pool.busy <= ScanCeiling
        /\ pool.workers = Min(ScanCeiling, pool.n)

\* the scan workers that hold a container they have built a command for
ScanWorkersAtWork ==
    {w \in DOMAIN testWorkers : testWorkers[w].pc \in {"exec", "log", "send"}}

\* C28: the command a scan worker executes is the shell alone, and the shell with
\* "-s", "--", "-c" after it exactly when the format is text; the shell is the one
\* the prober recorded in the target list for that container
C28_ShellCommand ==
    \A w \in ScanWorkersAtWork :
        LET info == testWorkers[w].info
            cmd == testWorkers[w].cmd
        IN  /\ (format = "text") => cmd = <<info.shell, "-s", "--", "-c">>
            /\ (format # "text") => cmd = <<info.shell>>
            /\ \E k \in DOMAIN targetContainers :
                  /\ targetContainers[k].container = info.container
                  /\ targetContainers[k].shell = cmd[1]
                  /\ targetContainers[k].shell \in {"sh", "bash"}

\* C28 witness: with the text format a worker runs bash with the flags
C28_Witness ==
    /\ format = "text"
    /\ \E w \in ScanWorkersAtWork :
          /\ testWorkers[w].cmd = <<"bash", "-s", "--", "-c">>
          /\ testWorkers[w].pc = "send"

\* the Results that have been handed over: in the queue or with the collector
ResultsHandedOver ==
    {resultsProdChan[k] : k \in DOMAIN resultsProdChan}
      \cup (IF resultsCollector.result = NoResult THEN {} ELSE {resultsCollector.result})

\* C29: a Result names a container that was executed, and every piece of output
\* in it was printed in that container
C29_OwnOutput ==
    \A result \in ResultsHandedOver :
        LET c == [Pod |-> result.podName, Container |-> result.containerName]
        IN  /\ c \in ContainerRefs
            /\ hist.execOK[c] + hist.execFail[c] >= 1
            /\ \A k \in DOMAIN result.scanReport : result.scanReport[k] = c

\* verifyContainers has returned with its goroutines finished and its queues
\* closed and empty
VerifyTerminated ==
    /\ pc \notin {"verifyContainers", "podWg.Wait", "contVerWorkerWg.Wait",
                   "contCollectorWg.Wait"}
    /\ podFeeder.pc = "done"
    /\ podClosed /\ podProdChan = <<>>
    /\ conClosed /\ conProdChan = <<>>
    /\ \A w \in DOMAIN verWorkers : verWorkers[w].pc = "done"
    /\ contCollector = "done"

\* the scan stage has returned with its goroutines finished and its queues
\* closed and empty
ScanTerminated ==
    /\ pc \notin {"scanSpawn", "contFanOutWg.Wait", "testWorkerWg.Wait",
                   "resultsCollectorWg.Wait"}
    /\ contFanOut.pc = "done"
    /\ contClosed /\ contProdChan = <<>>
    /\ resultsClosed /\ resultsProdChan = <<>>
    /\ \A w \in DOMAIN testWorkers : testWorkers[w].pc = "done"
    /\ resultsCollector.pc = "done"

LoggersFinished ==
    /\ pc \in {"logWg.Wait", "exit"}
    /\ \A w \in DOMAIN testWorkers : testWorkers[w].pc = "done"
    /\ resultsCollector.pc \in {"off", "done"}

\* C31: no goroutine sends on logBuffer after close(logBuffer), which would
\* panic: on every path of run the queue is closed only when every goroutine that
\* calls log has finished
C31_NoSendAfterClose ==
    /\ ~crashed
    /\ logClosed => LoggersFinished

\* C31 witness: the queue is closed after a scan of two containers that logged
\* its progress
C31_Witness ==
    /\ ~quiet
    /\ logClosed
    /\ resultsCollector.pc = "done"
    /\ resultsCollector.cnt = 2
    /\ AnalyzedValues = <<1, 2>>

\* C32, one step: the two lists change only in a step of the classification
\* collector, which takes one ContainerInfo from its queue, and never after it
\* has finished; the caller copies them only when the collector has finished;
\* the progress counter changes only in the results collector's cnt++
C32_Step ==
    /\ (target' # target \/ nontestable' # nontestable) =>
          /\ contCollector = "run" /\ contCollector' = "run"
          /\ conProdChan # <<>> /\ conProdChan' = Tail(conProdChan)
          /\ Len(target') + Len(nontestable') = Len(target) + Len(nontestable) + 1
          /\ pc' = pc
    /\ (targetContainers' # targetContainers
          \/ nontestableContainers' # nontestableContainers) =>
          /\ pc = "contCollectorWg.Wait"
          /\ contCollector = "done"
          /\ targetContainers' = target /\ nontestableContainers' = nontestable
    /\ (pc = "contCollectorWg.Wait" /\ pc' # pc) =>
          (contCollector = "done" /\ conProdChan = <<>>)
    /\ resultsCollector'.cnt # resultsCollector.cnt =>
          /\ resultsCollector.pc = "count"
          /\ resultsCollector'.cnt = resultsCollector.cnt + 1
          /\ testWorkers' = testWorkers /\ pc' = pc

\* C32: every step of the program is such a step
C32_SingleOwner == [][C32_Step]_vars

\* C32 witness: the collector has put one container in each list, the caller has
\* taken the lists over and the results collector has counted the one Result
C32_Witness ==
    /\ Len(targetContainers) = 1 /\ Len(nontestableContainers) = 1
    /\ targetContainers = target /\ nontestableContainers = nontestable
    /\ contCollector = "done"
    /\ resultsCollector.cnt = 1

====
